---- MODULE Spec2Model ----
(***************************************************************************)
(* A model of pluto-src (src/src/lib.rs): the Build configuration, its     *)
(* build() operation, the C++ standard-library name resolver and the       *)
(* Artifacts descriptor with its cargo metadata.                           *)
(*                                                                         *)
(* Strings are TLA+ strings.  An OsString (an environment value, a path)   *)
(* is a string in which the character InvalidByte stands for a byte        *)
(* sequence that is not valid UTF-8; ReplacementChar stands for U+FFFD.    *)
(***************************************************************************)
EXTENDS Integers, Sequences, FiniteSets, Bags, TLC

VARIABLES
    env,          \* the process environment: variable name -> OsString (set variables only)
    debug,        \* cfg!(debug_assertions) of the compiled build script
    self,         \* the Build value
    pc,           \* position of the caller inside / outside build()
    fs,           \* the output directories on disk: path -> [exists, files]
    config,       \* build()'s local `config` (cc::Build)
    soup_config,  \* build()'s local `soup_config` (cc::Build)
    trace,        \* the steps the current build() call has taken
    listed,       \* the directories the current build() call has read: dir -> entries lost
    art,          \* the Artifacts value returned by the last build() call
    stdout,       \* the lines printed so far
    nbuilds,      \* number of build() calls begun
    ncalls,       \* number of calls and environment changes made since new()
    snap,         \* the environment as it was when new() ran
    setters,      \* the last argument given to each of out_dir(), target(), host()
    ret           \* arguments and result of a direct get_cpp_link_stdlib call

vars == <<env, debug, self, pc, fs, config, soup_config, trace, listed, art, stdout,
          nbuilds, ncalls, snap, setters, ret>>

-----------------------------------------------------------------------------
(* Option and Result values *)

None == [some |-> FALSE]
Some(v) == [some |-> TRUE, v |-> v]
Err == [ok |-> FALSE]
Ok(v) == [ok |-> TRUE, v |-> v]

\* Result::ok
ok(r) == IF r.ok THEN Some(r.v) ELSE None

\* Result::or_else: the second lookup runs only when the first failed
or_else(r, next) == IF r.ok THEN r ELSE next

-----------------------------------------------------------------------------
(* Strings *)

InvalidByte == "~"
ReplacementChar == "?"

\* str::contains
contains(s, pat) ==
    \E i \in 1..(Len(s) - Len(pat) + 1) : SubSeq(s, i, i + Len(pat) - 1) = pat

RECURSIVE replace(_, _, _)
\* str::replace(from, to) for a one-character pattern
replace(s, from, to) ==
    IF Len(s) = 0 THEN ""
    ELSE (IF SubSeq(s, 1, 1) = from THEN to ELSE SubSeq(s, 1, 1))
         \o replace(SubSeq(s, 2, Len(s)), from, to)

\* OsString::into_string succeeds exactly on valid Unicode
IsUnicode(os) == ~contains(os, InvalidByte)

\* Path::display: a lossy conversion
display(p) == replace(p, InvalidByte, ReplacementChar)

\* Path::join with a relative component
join(p, comp) ==
    IF Len(p) = 0 \/ SubSeq(p, Len(p), Len(p)) = "/" THEN p \o comp
    ELSE p \o "/" \o comp

\* Path::extension of a file name: the part after the last '.', None when the
\* name has no '.' or only a leading one
extension(name) ==
    LET dots == {i \in 2..Len(name) : SubSeq(name, i, i) = "."}
    IN  IF dots = {} THEN None
        ELSE LET last == CHOOSE i \in dots : \A j \in dots : j <= i
             IN  Some(SubSeq(name, last + 1, Len(name)))

-----------------------------------------------------------------------------
(* The process environment *)

\* env::var_os
env_var_os(e, key) == IF key \in DOMAIN e THEN Some(e[key]) ELSE None

\* env::var: Err when the variable is unset or is not valid Unicode
env_var(e, key) ==
    IF key \notin DOMAIN e THEN Err
    ELSE IF ~IsUnicode(e[key]) THEN Err
    ELSE Ok(e[key])

SetVarIn(e, key, val) == [k \in DOMAIN e \cup {key} |-> IF k = key THEN val ELSE e[k]]
RemoveVarIn(e, key) == [k \in DOMAIN e \ {key} |-> e[k]]

-----------------------------------------------------------------------------
(* Build::get_cpp_link_stdlib *)

\* A wrong resolver: the fully generic override is tried first
get_cpp_link_stdlib_generic_first(e, target, host) ==
    LET kind == IF host = target THEN "HOST" ELSE "TARGET"
        res == ok(or_else(env_var(e, "CXXSTDLIB"),
                  or_else(env_var(e, "CXXSTDLIB_" \o target),
                  or_else(env_var(e, "CXXSTDLIB_" \o replace(target, "-", "_")),
                          env_var(e, kind \o "_CXXSTDLIB")))))
    IN  IF res.some THEN res
        ELSE IF contains(target, "msvc") THEN None
        ELSE IF contains(target, "apple") \/ contains(target, "freebsd")
                \/ contains(target, "openbsd") THEN Some("c++")
        ELSE IF contains(target, "android") THEN Some("c++_shared")
        ELSE Some("stdc++")

\* A wrong resolver: the Android family falls through to the GNU runtime
get_cpp_link_stdlib_no_android(e, target, host) ==
    LET kind == IF host = target THEN "HOST" ELSE "TARGET"
        res == ok(or_else(env_var(e, "CXXSTDLIB_" \o target),
                  or_else(env_var(e, "CXXSTDLIB_" \o replace(target, "-", "_")),
                  or_else(env_var(e, kind \o "_CXXSTDLIB"),
                          env_var(e, "CXXSTDLIB")))))
    IN  IF res.some THEN res
        ELSE IF contains(target, "msvc") THEN None
        ELSE IF contains(target, "apple") \/ contains(target, "freebsd")
                \/ contains(target, "openbsd") THEN Some("c++")
        ELSE Some("stdc++")

\* get_cpp_link_stdlib(target, host), reading the environment e
get_cpp_link_stdlib_in(e, target, host) ==
    LET kind == IF host = target THEN "HOST" ELSE "TARGET"
        res == ok(or_else(env_var(e, "CXXSTDLIB_" \o target),
                  or_else(env_var(e, "CXXSTDLIB_" \o replace(target, "-", "_")),
                  or_else(env_var(e, kind \o "_CXXSTDLIB"),
                          env_var(e, "CXXSTDLIB")))))
    IN  IF res.some THEN res
        ELSE IF contains(target, "msvc") THEN None
        ELSE IF contains(target, "apple") \/ contains(target, "freebsd")
                \/ contains(target, "openbsd") THEN Some("c++")
        ELSE IF contains(target, "android") THEN Some("c++_shared")
        ELSE Some("stdc++")

\* the function as the program calls it: on the process environment of the moment
get_cpp_link_stdlib(target, host) == get_cpp_link_stdlib_in(env, target, host)

-----------------------------------------------------------------------------
(* Build: construction and setters *)

\* Build::new, reading the environment e
new_build(e) ==
    [out_dir |-> IF env_var_os(e, "OUT_DIR").some
                 THEN Some(join(env_var_os(e, "OUT_DIR").v, "pluto-build"))
                 ELSE None,
     target |-> ok(env_var(e, "TARGET")),
     host |-> ok(env_var(e, "HOST")),
     max_stack_size |-> None,
     use_longjmp |-> None]

-----------------------------------------------------------------------------
(* cc::Build as build() uses it: a record of the requests made of it *)

cc_new ==
    [target |-> None, host |-> None, warnings |-> None, cargo_metadata |-> None,
     std |-> None, cpp |-> None, opt_level |-> None, out_dir |-> None,
     flags_supported |-> <<>>, definitions |-> <<>>, files |-> EmptyBag]

define(c, name, val) ==
    [c EXCEPT !.definitions = Append(@, [name |-> name, val |-> val])]

flag_if_supported(c, flag) == [c EXCEPT !.flags_supported = Append(@, flag)]

\* build(), "Configure C++": the configuration shared by both libraries
base_config(b, dbg) ==
    LET c0 == [cc_new EXCEPT !.target = Some(b.target.v), !.host = Some(b.host.v),
                             !.warnings = Some(FALSE), !.cargo_metadata = Some(FALSE),
                             !.std = Some("c++17")]
        c1 == flag_if_supported(flag_if_supported(flag_if_supported(c0,
                  "-fvisibility=hidden"), "-fno-rtti"), "-Wno-multichar")
        c2 == [c1 EXCEPT !.cpp = Some(TRUE)]
        c3 == IF b.max_stack_size.some
              THEN define(c2, "LUAI_MAXSTACK", Some(ToString(b.max_stack_size.v)))
              ELSE c2
        c4 == IF b.use_longjmp = Some(TRUE)
              THEN define(c3, "LUA_USE_LONGJMP", Some("1"))
              ELSE c3
    IN  IF dbg THEN define(c4, "LUA_USE_APICHECK", None)
        ELSE flag_if_supported(
                 [define(c4, "NDEBUG", None) EXCEPT !.opt_level = Some(2)],
                 "-fno-math-errno")

-----------------------------------------------------------------------------
(* The vendored source tree and AddFilesByExt *)

CARGO_MANIFEST_DIR == "/crate"
pluto_source_dir == join(CARGO_MANIFEST_DIR, "pluto")
soup_source_dir == join(join(pluto_source_dir, "vendor"), "Soup")
soup_dir == join(soup_source_dir, "soup")
intrin_dir == join(soup_source_dir, "Intrin")

\* the entries fs::read_dir finds in each source directory
SourceTree(dir) ==
    IF dir = soup_dir THEN {"aes.cpp", "aes.hpp"}
    ELSE IF dir = intrin_dir THEN {"aes_helper.cpp"}
    ELSE IF dir = pluto_source_dir THEN {"lapi.cpp", "lua.hpp", "vendor"}
    ELSE {}

\* how many entries of one directory may come back as Err from the iterator
MaxLostEntries == 1

\* fs::read_dir(dir): Err (the directory cannot be read), or an iterator whose
\* items are Ok(entry) except for the lost ones, which are Err
ReadDirOutcomes(dir) ==
    {Err} \cup {Ok([entries |-> SourceTree(dir), lost |-> l]) :
                  l \in {x \in SUBSET SourceTree(dir) : Cardinality(x) <= MaxLostEntries}}

\* add_files_by_ext on an iterator that read_dir returned: Err items are
\* dropped by filter_map, the rest are filtered on their extension
add_files_by_ext(c, dir, listing, ext) ==
    LET yielded == listing.entries \ listing.lost
        picked == {join(dir, n) : n \in {m \in yielded : extension(m) = Some(ext)}}
    IN  [c EXCEPT !.files = @ (+) SetToBag(picked)]

-----------------------------------------------------------------------------
(* build(): the architecture dispatch on the support library's configuration *)

x86_64_flags == <<"-maes", "-mpclmul", "-mrdrnd", "-mrdseed", "-msha", "-msse4.1">>
aarch64_flags == <<"-march=armv8-a+crypto+crc">>

RECURSIVE flags_if_supported(_, _)
flags_if_supported(c, flags) ==
    IF flags = <<>> THEN c
    ELSE flags_if_supported(flag_if_supported(c, Head(flags)), Tail(flags))

\* whether the arm the match takes enumerates the Intrin directory
needs_intrin(target) == contains(target, "x86_64") \/ contains(target, "aarch64")

\* A wrong dispatch: two independent tests instead of one match
arch_dispatch_both_arms(target, c, listing) ==
    LET c1 == IF contains(target, "x86_64")
              THEN flags_if_supported(
                       add_files_by_ext(define(c, "SOUP_USE_INTRIN", None),
                                        intrin_dir, listing, "cpp"),
                       x86_64_flags)
              ELSE c
    IN  IF contains(target, "aarch64")
        THEN flags_if_supported(
                 add_files_by_ext(define(c1, "SOUP_USE_INTRIN", None),
                                  intrin_dir, listing, "cpp"),
                 aarch64_flags)
        ELSE c1

\* the match of build(): the first arm whose guard holds is the only one taken
arch_dispatch(target, c, listing) ==
    IF contains(target, "x86_64")
    THEN flags_if_supported(
             add_files_by_ext(define(c, "SOUP_USE_INTRIN", None),
                              intrin_dir, listing, "cpp"),
             x86_64_flags)
    ELSE IF contains(target, "aarch64")
    THEN flags_if_supported(
             add_files_by_ext(define(c, "SOUP_USE_INTRIN", None),
                              intrin_dir, listing, "cpp"),
             aarch64_flags)
    ELSE c

-----------------------------------------------------------------------------
(* The inputs explored *)

\* calls (setters, build, print_cargo_metadata) and environment changes per run
MaxCalls == 3

T_LINUX == "x86_64-unknown-linux-gnu"
T_ANDROID == "aarch64-linux-android"
T_MSVC == "i686-pc-windows-msvc"
T_APPLE == "x86_64-apple-darwin"
T_BOTH == "aarch64-x86_64-none"

BuildTargets == {T_LINUX, T_ANDROID, T_MSVC, T_BOTH}
BuildHosts == {T_LINUX}
SetterPaths == {"/alt"}
StackSizes == {1000000}

\* environments new() may find: complete, cross-compiling with an override,
\* one of the three variables missing, a value that is not valid Unicode
InitEnvs ==
    { [k \in {"OUT_DIR", "TARGET", "HOST"} |-> IF k = "OUT_DIR" THEN "/out" ELSE T_LINUX],
      [k \in {"OUT_DIR", "TARGET", "HOST", "CXXSTDLIB"} |->
          IF k = "OUT_DIR" THEN "/out/" ELSE IF k = "TARGET" THEN T_ANDROID
          ELSE IF k = "HOST" THEN T_LINUX ELSE "c++_static"],
      [k \in {"TARGET", "HOST"} |-> T_LINUX],
      [k \in {"OUT_DIR", "HOST"} |-> IF k = "OUT_DIR" THEN "/out" ELSE T_LINUX],
      [k \in {"OUT_DIR", "TARGET", "HOST"} |->
          IF k = "OUT_DIR" THEN "/out" ELSE IF k = "TARGET" THEN T_MSVC
          ELSE "x86_64" \o InvalidByte],
      [k \in {"OUT_DIR", "TARGET", "HOST"} |->
          IF k = "OUT_DIR" THEN "/o" \o InvalidByte ELSE T_APPLE] }

\* changes made to the environment after new()
EnvChanges ==
    { [key |-> "CXXSTDLIB", val |-> Some("c++")],
      [key |-> "CXXSTDLIB", val |-> None],
      [key |-> "CXXSTDLIB_" \o T_LINUX, val |-> Some("stdc++" \o InvalidByte)],
      [key |-> "OUT_DIR", val |-> Some("/moved")],
      [key |-> "TARGET", val |-> Some(T_APPLE)],
      [key |-> "HOST", val |-> None] }

Paths ==
    {join("/out", "pluto-build"), join("/o" \o InvalidByte, "pluto-build"),
     join("/moved", "pluto-build")} \cup SetterPaths

\* an output directory: absent, or present with the files in it; a file is
\* named by the library it belongs to and the build() call that wrote it
Absent == [exists |-> FALSE, files |-> {}]
Stale == [exists |-> TRUE, files |-> {[lib |-> "pluto", build |-> 0]}]

-----------------------------------------------------------------------------
(* File-system effects of build() *)

\* Path::exists
path_exists(f, d) == f[d].exists

\* A wrong cleanup: the directory is left as it is
remove_dir_all_skipped(f, d) == f

\* fs::remove_dir_all succeeding
remove_dir_all(f, d) == [f EXCEPT ![d] = Absent]

\* cc::Build::compile(name) succeeding in out_dir d during build() call n:
\* the directory is created if needed and the library is written into it
compiled(f, d, name, n) ==
    [f EXCEPT ![d] = [exists |-> TRUE, files |-> @.files \cup {[lib |-> name, build |-> n]}]]

\* cc::Build::compile failing: the directory has been created, no library written
compile_failed(f, d) == [f EXCEPT ![d].exists = TRUE]

-----------------------------------------------------------------------------
(* Setters and environment changes, made between calls *)

Callable == pc \in {"idle", "done"}

\* one step of build(): its name and whether it succeeded
Step(name, succeeded) == [step |-> name, ok |-> succeeded]

\* the current call has read directory dir and lost these entries
Listed(l, dir, lost) == [d \in DOMAIN l \cup {dir} |-> IF d = dir THEN lost ELSE l[d]]
NothingListed == [d \in {} |-> {}]

Build_out_dir(path) ==
    /\ Callable /\ ncalls < MaxCalls
    /\ self' = [self EXCEPT !.out_dir = Some(path)]
    /\ setters' = [setters EXCEPT !.out_dir = Some(path)]
    /\ pc' = "idle" /\ ncalls' = ncalls + 1
    /\ UNCHANGED <<env, debug, fs, config, soup_config, trace, art, stdout, nbuilds, snap, ret, listed>>

Build_target(t) ==
    /\ Callable /\ ncalls < MaxCalls
    /\ self' = [self EXCEPT !.target = Some(t)]
    /\ setters' = [setters EXCEPT !.target = Some(t)]
    /\ pc' = "idle" /\ ncalls' = ncalls + 1
    /\ UNCHANGED <<env, debug, fs, config, soup_config, trace, art, stdout, nbuilds, snap, ret, listed>>

Build_host(h) ==
    /\ Callable /\ ncalls < MaxCalls
    /\ self' = [self EXCEPT !.host = Some(h)]
    /\ setters' = [setters EXCEPT !.host = Some(h)]
    /\ pc' = "idle" /\ ncalls' = ncalls + 1
    /\ UNCHANGED <<env, debug, fs, config, soup_config, trace, art, stdout, nbuilds, snap, ret, listed>>

Build_set_max_stack_size(size) ==
    /\ Callable /\ ncalls < MaxCalls
    /\ self' = [self EXCEPT !.max_stack_size = Some(size)]
    /\ pc' = "idle" /\ ncalls' = ncalls + 1
    /\ UNCHANGED <<env, debug, fs, config, soup_config, trace, art, stdout, nbuilds, snap, setters, ret, listed>>

Build_use_longjmp(use) ==
    /\ Callable /\ ncalls < MaxCalls
    /\ self' = [self EXCEPT !.use_longjmp = Some(use)]
    /\ pc' = "idle" /\ ncalls' = ncalls + 1
    /\ UNCHANGED <<env, debug, fs, config, soup_config, trace, art, stdout, nbuilds, snap, setters, ret, listed>>

\* the environment changes under the program (set_var / remove_var by anyone)
ChangeEnv(c) ==
    /\ Callable /\ ncalls < MaxCalls
    /\ env' = IF c.val.some THEN SetVarIn(env, c.key, c.val.v) ELSE RemoveVarIn(env, c.key)
    /\ env' # env
    /\ pc' = "idle" /\ ncalls' = ncalls + 1
    /\ UNCHANGED <<debug, self, fs, config, soup_config, trace, art, stdout, nbuilds, snap, setters, ret, listed>>

-----------------------------------------------------------------------------
(* build(), step by step *)

\* A wrong entry: the output directory is cleaned before target and host are checked
build_enter_clean_first ==
    /\ Callable /\ ncalls < MaxCalls
    /\ ncalls' = ncalls + 1 /\ nbuilds' = nbuilds + 1
    /\ art' = None /\ config' = None /\ soup_config' = None /\ listed' = NothingListed
    /\ IF self.target.some /\ self.host.some /\ self.out_dir.some
       THEN pc' = "cleanup" /\ trace' = <<Step("expect", TRUE)>> /\ fs' = fs
       ELSE /\ pc' = "aborted" /\ trace' = <<Step("expect", FALSE)>>
            /\ fs' = IF self.out_dir.some THEN remove_dir_all(fs, self.out_dir.v) ELSE fs
    /\ UNCHANGED <<env, debug, self, stdout, snap, setters, ret>>

\* lines 58-64: the three expect() calls
build_enter ==
    /\ Callable /\ ncalls < MaxCalls
    /\ ncalls' = ncalls + 1 /\ nbuilds' = nbuilds + 1
    /\ art' = None /\ config' = None /\ soup_config' = None /\ listed' = NothingListed
    /\ IF self.target.some /\ self.host.some /\ self.out_dir.some
       THEN pc' = "cleanup" /\ trace' = <<Step("expect", TRUE)>>
       ELSE pc' = "aborted" /\ trace' = <<Step("expect", FALSE)>>
    /\ UNCHANGED <<env, debug, self, fs, stdout, snap, setters, ret>>

\* lines 66-69: remove_dir_all succeeds, or fails having removed some of the files
build_cleanup ==
    /\ pc = "cleanup"
    /\ LET d == self.out_dir.v
       IN  IF path_exists(fs, d)
           THEN \E removed \in BOOLEAN :
                  IF removed
                  THEN /\ fs' = remove_dir_all(fs, d)
                       /\ pc' = "configure" /\ trace' = Append(trace, Step("cleanup", TRUE))
                  ELSE /\ \E rest \in SUBSET fs[d].files : fs' = [fs EXCEPT ![d].files = rest]
                       /\ pc' = "aborted" /\ trace' = Append(trace, Step("cleanup", FALSE))
           ELSE /\ fs' = fs
                /\ pc' = "configure" /\ trace' = Append(trace, Step("cleanup", TRUE))
    /\ UNCHANGED <<env, debug, self, config, soup_config, art, stdout, nbuilds, ncalls, snap, setters, ret, listed>>

\* lines 71-104: the shared configuration, its clone, the support library's files
build_configure ==
    /\ pc = "configure"
    /\ config' = base_config(self, debug)
    /\ \E r \in ReadDirOutcomes(soup_dir) :
         IF r.ok
         THEN /\ soup_config' = add_files_by_ext(config', soup_dir, r.v, "cpp")
              /\ pc' = "dispatch" /\ trace' = Append(trace, Step("enum_soup", TRUE))
              /\ listed' = Listed(listed, soup_dir, r.v.lost)
         ELSE /\ soup_config' = config'
              /\ pc' = "aborted" /\ trace' = Append(trace, Step("enum_soup", FALSE))
              /\ listed' = listed
    /\ UNCHANGED <<env, debug, self, fs, art, stdout, nbuilds, ncalls, snap, setters, ret>>

NoListing == [entries |-> {}, lost |-> {}]

\* A wrong dispatch: soup_config is the shared configuration itself, not a clone
build_dispatch_shared ==
    /\ pc = "dispatch"
    /\ \E r \in IF needs_intrin(self.target.v) THEN ReadDirOutcomes(intrin_dir)
                ELSE {Ok(NoListing)} :
         IF r.ok
         THEN /\ soup_config' = arch_dispatch(self.target.v, soup_config, r.v)
              /\ config' = soup_config'
              /\ pc' = "compile_soup" /\ trace' = Append(trace, Step("dispatch", TRUE))
              /\ listed' = IF needs_intrin(self.target.v)
                            THEN Listed(listed, intrin_dir, r.v.lost) ELSE listed
         ELSE /\ soup_config' = define(soup_config, "SOUP_USE_INTRIN", None)
              /\ config' = soup_config'
              /\ pc' = "aborted" /\ trace' = Append(trace, Step("dispatch", FALSE))
              /\ listed' = listed
    /\ UNCHANGED <<env, debug, self, fs, art, stdout, nbuilds, ncalls, snap, setters, ret>>

\* lines 105-124: the match on the target; an arm that is taken enumerates Intrin
build_dispatch ==
    /\ pc = "dispatch"
    /\ \E r \in IF needs_intrin(self.target.v) THEN ReadDirOutcomes(intrin_dir)
                ELSE {Ok(NoListing)} :
         IF r.ok
         THEN /\ soup_config' = arch_dispatch(self.target.v, soup_config, r.v)
              /\ pc' = "compile_soup" /\ trace' = Append(trace, Step("dispatch", TRUE))
              /\ listed' = IF needs_intrin(self.target.v)
                            THEN Listed(listed, intrin_dir, r.v.lost) ELSE listed
         ELSE /\ soup_config' = define(soup_config, "SOUP_USE_INTRIN", None)
              /\ pc' = "aborted" /\ trace' = Append(trace, Step("dispatch", FALSE))
              /\ listed' = listed
    /\ UNCHANGED <<env, debug, self, fs, config, art, stdout, nbuilds, ncalls, snap, setters, ret>>

\* A wrong compile step: a failed compile is not fatal
build_compile_soup_not_fatal ==
    /\ pc = "compile_soup"
    /\ soup_config' = [soup_config EXCEPT !.out_dir = Some(self.out_dir.v)]
    /\ \E succeeded \in BOOLEAN :
         /\ fs' = IF succeeded THEN compiled(fs, self.out_dir.v, "soup", nbuilds)
                  ELSE compile_failed(fs, self.out_dir.v)
         /\ pc' = "pluto_files"
         /\ trace' = Append(trace, Step("compile_soup", succeeded))
    /\ UNCHANGED <<env, debug, self, config, art, stdout, nbuilds, ncalls, snap, setters, ret, listed>>

\* line 125: soup_config.out_dir(out_dir).compile("soup")
build_compile_soup ==
    /\ pc = "compile_soup"
    /\ soup_config' = [soup_config EXCEPT !.out_dir = Some(self.out_dir.v)]
    /\ \E succeeded \in BOOLEAN :
         /\ fs' = IF succeeded THEN compiled(fs, self.out_dir.v, "soup", nbuilds)
                  ELSE compile_failed(fs, self.out_dir.v)
         /\ pc' = IF succeeded THEN "pluto_files" ELSE "aborted"
         /\ trace' = Append(trace, Step("compile_soup", succeeded))
    /\ UNCHANGED <<env, debug, self, config, art, stdout, nbuilds, ncalls, snap, setters, ret, listed>>

\* lines 129-130: the main library's files are added to the shared configuration
build_pluto_files ==
    /\ pc = "pluto_files"
    /\ \E r \in ReadDirOutcomes(pluto_source_dir) :
         IF r.ok
         THEN /\ config' = add_files_by_ext(config, pluto_source_dir, r.v, "cpp")
              /\ pc' = "compile_pluto" /\ trace' = Append(trace, Step("enum_pluto", TRUE))
              /\ listed' = Listed(listed, pluto_source_dir, r.v.lost)
         ELSE /\ config' = config
              /\ pc' = "aborted" /\ trace' = Append(trace, Step("enum_pluto", FALSE))
              /\ listed' = listed
    /\ UNCHANGED <<env, debug, self, fs, soup_config, art, stdout, nbuilds, ncalls, snap, setters, ret>>

\* lines 131-132: config.out_dir(out_dir).compile("pluto")
build_compile_pluto ==
    /\ pc = "compile_pluto"
    /\ config' = [config EXCEPT !.out_dir = Some(self.out_dir.v)]
    /\ \E succeeded \in BOOLEAN :
         /\ fs' = IF succeeded THEN compiled(fs, self.out_dir.v, "pluto", nbuilds)
                  ELSE compile_failed(fs, self.out_dir.v)
         /\ pc' = IF succeeded THEN "return" ELSE "aborted"
         /\ trace' = Append(trace, Step("compile_pluto", succeeded))
    /\ UNCHANGED <<env, debug, self, soup_config, art, stdout, nbuilds, ncalls, snap, setters, ret, listed>>

\* A wrong result: the libraries are listed support library first
artifacts_reversed(b) ==
    [lib_dir |-> b.out_dir.v,
     libs |-> <<"soup", "pluto">>,
     cpp_stdlib |-> get_cpp_link_stdlib(b.target.v, b.host.v)]

\* A wrong result: OUT_DIR is read again when the result is built
artifacts_reread_env(b) ==
    [lib_dir |-> IF env_var_os(env, "OUT_DIR").some
                 THEN join(env_var_os(env, "OUT_DIR").v, "pluto-build")
                 ELSE b.out_dir.v,
     libs |-> <<"pluto", "soup">>,
     cpp_stdlib |-> get_cpp_link_stdlib(b.target.v, b.host.v)]

\* lines 134-138: the Artifacts value
artifacts(b) ==
    [lib_dir |-> b.out_dir.v,
     libs |-> <<"pluto", "soup">>,
     cpp_stdlib |-> get_cpp_link_stdlib(b.target.v, b.host.v)]

\* lines 134-139: build() returns; its locals are dropped
build_return ==
    /\ pc = "return"
    /\ art' = Some(artifacts(self))
    /\ pc' = "done" /\ trace' = Append(trace, Step("return", TRUE))
    /\ config' = None /\ soup_config' = None /\ listed' = NothingListed
    /\ UNCHANGED <<env, debug, self, fs, stdout, nbuilds, ncalls, snap, setters, ret>>

-----------------------------------------------------------------------------
(* Artifacts::print_cargo_metadata *)

\* A wrong printer: the standard library is linked whether resolved or not
metadata_lines_always_stdlib(a) ==
    <<"cargo:rustc-link-search=native=" \o display(a.lib_dir)>>
    \o [i \in 1..Len(a.libs) |-> "cargo:rustc-link-lib=static=" \o a.libs[i]]
    \o <<"cargo:rustc-link-lib=" \o (IF a.cpp_stdlib.some THEN a.cpp_stdlib.v ELSE "")>>

\* the lines println! writes, in order
metadata_lines(a) ==
    <<"cargo:rustc-link-search=native=" \o display(a.lib_dir)>>
    \o [i \in 1..Len(a.libs) |-> "cargo:rustc-link-lib=static=" \o a.libs[i]]
    \o (IF a.cpp_stdlib.some THEN <<"cargo:rustc-link-lib=" \o a.cpp_stdlib.v>> ELSE <<>>)

print_cargo_metadata ==
    /\ Callable /\ ncalls < MaxCalls /\ art.some
    /\ stdout' = stdout \o metadata_lines(art.v)
    /\ ncalls' = ncalls + 1
    /\ UNCHANGED <<env, debug, self, pc, fs, config, soup_config, trace, art, nbuilds, snap, setters, ret, listed>>

-----------------------------------------------------------------------------
(* The specification of a Build from new() on *)

NoCall == [called |-> FALSE, target |-> "", host |-> "", value |-> None]

Init ==
    /\ env \in InitEnvs
    /\ snap = env
    /\ self = new_build(env)
    /\ debug \in BOOLEAN
    /\ pc = "idle"
    /\ fs \in {[p \in Paths |-> Absent], [p \in Paths |-> Stale]}
    /\ config = None /\ soup_config = None
    /\ trace = <<>> /\ listed = NothingListed /\ art = None /\ stdout = <<>>
    /\ nbuilds = 0 /\ ncalls = 0
    /\ setters = [out_dir |-> None, target |-> None, host |-> None]
    /\ ret = NoCall

Next ==
    \/ \E p \in SetterPaths : Build_out_dir(p)
    \/ \E t \in BuildTargets : Build_target(t)
    \/ \E h \in BuildHosts : Build_host(h)
    \/ \E n \in StackSizes : Build_set_max_stack_size(n)
    \/ \E b \in BOOLEAN : Build_use_longjmp(b)
    \/ \E c \in EnvChanges : ChangeEnv(c)
    \/ build_enter
    \/ build_cleanup
    \/ build_configure
    \/ build_dispatch
    \/ build_compile_soup
    \/ build_pluto_files
    \/ build_compile_pluto
    \/ build_return
    \/ print_cargo_metadata

Spec == Init /\ [][Next]_vars

-----------------------------------------------------------------------------
(* The specification of get_cpp_link_stdlib called on its own *)

T_FREEBSD == "x86_64-unknown-freebsd"
T_OPENBSD == "x86_64-unknown-openbsd"
T_WASM == "wasm32"
T_APPLE_ANDROID == "arm-apple-android"
T_ANDROID_MSVC == "thumbv7-android-msvc"

ResolveTargets ==
    {T_LINUX, T_ANDROID, T_MSVC, T_APPLE, T_BOTH, T_FREEBSD, T_OPENBSD, T_WASM,
     T_APPLE_ANDROID, T_ANDROID_MSVC}

ResolveHosts(t) == {t, IF t = T_LINUX THEN T_APPLE ELSE T_LINUX}

\* a set variable holds the empty string, a name, or bytes that are not Unicode
OverrideValues == {"", "c++", "c++" \o InvalidByte}

OverrideKeys(t) ==
    {"CXXSTDLIB_" \o t, "CXXSTDLIB_" \o replace(t, "-", "_"),
     "HOST_CXXSTDLIB", "TARGET_CXXSTDLIB", "CXXSTDLIB"}

OverrideEnvs(t) == UNION {[K -> OverrideValues] : K \in SUBSET OverrideKeys(t)}

InitResolve ==
    /\ \E t \in ResolveTargets :
         /\ env \in OverrideEnvs(t)
         /\ \E h \in ResolveHosts(t) :
              self = [out_dir |-> None, target |-> Some(t), host |-> Some(h),
                      max_stack_size |-> None, use_longjmp |-> None]
    /\ snap = env
    /\ debug = FALSE
    /\ pc = "idle"
    /\ fs = [p \in Paths |-> Absent]
    /\ config = None /\ soup_config = None
    /\ trace = <<>> /\ listed = NothingListed /\ art = None /\ stdout = <<>>
    /\ nbuilds = 0 /\ ncalls = 0
    /\ setters = [out_dir |-> None, target |-> None, host |-> None]
    /\ ret = NoCall

ResolveCall ==
    /\ ~ret.called
    /\ ret' = [called |-> TRUE, target |-> self.target.v, host |-> self.host.v,
               value |-> get_cpp_link_stdlib(self.target.v, self.host.v)]
    /\ UNCHANGED <<env, debug, self, pc, fs, config, soup_config, trace, art, stdout,
                   nbuilds, ncalls, snap, setters, listed>>

NextResolve == ResolveCall

SpecResolve == InitResolve /\ [][NextResolve]_vars

-----------------------------------------------------------------------------
(* Claims about get_cpp_link_stdlib, under SpecResolve *)

\* the override variables in the order the resolver tries them
OverrideOrder(t, h) ==
    <<"CXXSTDLIB_" \o t, "CXXSTDLIB_" \o replace(t, "-", "_"),
      IF h = t THEN "HOST_CXXSTDLIB" ELSE "TARGET_CXXSTDLIB", "CXXSTDLIB">>

IsSet(k) == k \in DOMAIN env
IsUsable(k) == k \in DOMAIN env /\ IsUnicode(env[k])

C2_PlatformFallback ==
    (ret.called /\ \A k \in OverrideKeys(ret.target) : ~IsSet(k)) =>
        /\ ret.value =
             IF contains(ret.target, "msvc") THEN None
             ELSE IF \E fam \in {"apple", "freebsd", "openbsd"} : contains(ret.target, fam)
                  THEN Some("c++")
             ELSE IF contains(ret.target, "android") THEN Some("c++_shared")
             ELSE Some("stdc++")
        /\ ret.target = "x86_64-apple-darwin" => ret.value = Some("c++")
        /\ ret.target = "x86_64-unknown-linux-gnu" => ret.value = Some("stdc++")
        /\ ret.target = "aarch64-linux-android" => ret.value = Some("c++_shared")

\* C2 witness: cross-compiling to Android with an empty environment
C2_Witness ==
    /\ ret.called /\ DOMAIN env = {}
    /\ ret.target = "aarch64-linux-android" /\ ret.host # ret.target
    /\ ret.value = Some("c++_shared")

-----------------------------------------------------------------------------
(* Claims about build() and Artifacts, under Spec *)

HasAllInputs == self.target.some /\ self.host.some /\ self.out_dir.some

\* C3: when target, host or out_dir is absent, entering build() aborts at once
\* with the disk untouched and nothing returned, and after an abort nothing
\* runs: no directory is deleted or created, no compile step, no Artifacts.
C3_AbortBeforeMutation ==
    [][/\ (Callable /\ ~HasAllInputs /\ nbuilds' # nbuilds) =>
            (pc' = "aborted" /\ fs' = fs /\ art' = None
             /\ trace' = <<Step("expect", FALSE)>>)
       /\ pc = "aborted" => (fs' = fs /\ art' = art /\ pc' = pc)]_vars

\* C3 witness: build() aborted on a missing target or host while the output
\* directory it was given exists on disk
C3_Witness ==
    /\ pc = "aborted" /\ trace = <<Step("expect", FALSE)>>
    /\ self.out_dir.some /\ fs[self.out_dir.v].exists
    /\ art = None

\* C4: every Artifacts value build() returns lists exactly "pluto" then "soup",
\* and its lib_dir is the out_dir the build ran with.
C4_LibsAndDir ==
    /\ art.some => (art.v.libs = <<"pluto", "soup">> /\ Len(art.v.libs) = 2)
    /\ pc = "done" => (art.some /\ art.v.lib_dir = self.out_dir.v)

\* C4 witness: a build for an msvc target into a directory given by the setter
C4_Witness ==
    /\ pc = "done" /\ art.some
    /\ self.out_dir = Some("/alt") /\ contains(self.target.v, "msvc")
    /\ art.v.lib_dir = "/alt" /\ ~art.v.cpp_stdlib.some

AfterDispatch == pc \in {"compile_soup", "pluto_files", "compile_pluto", "return"}

Count(seq, x) == Cardinality({i \in 1..Len(seq) : seq[i] = x})
Elems(seq) == {seq[i] : i \in 1..Len(seq)}
IntrinMacro == [name |-> "SOUP_USE_INTRIN", val |-> None]

\* the files of a configuration that lie in directory dir
FilesIn(c, dir) == {f \in BagToSet(c.files) : \E n \in SourceTree(dir) : f = join(dir, n)}

\* C5: once the dispatch has run, a target containing "x86_64" or "aarch64" has
\* given the support library's configuration SOUP_USE_INTRIN and the .cpp files
\* of Intrin, each once; any other target has given it nothing; the x86_64
\* flags are requested exactly for targets containing "x86_64", the aarch64
\* flag exactly for targets containing "aarch64" but not "x86_64", never both.
C5_ArchDispatch ==
    AfterDispatch =>
        LET t == self.target.v
            x86 == contains(t, "x86_64")
            arm == contains(t, "aarch64")
            flags == Elems(soup_config.flags_supported)
        IN  /\ Count(soup_config.definitions, IntrinMacro) = IF x86 \/ arm THEN 1 ELSE 0
            /\ FilesIn(soup_config, intrin_dir) =
                 IF x86 \/ arm
                 THEN {join(intrin_dir, n) :
                         n \in {m \in SourceTree(intrin_dir) \ listed[intrin_dir] :
                                  extension(m) = Some("cpp")}}
                 ELSE {}
            /\ \A f \in BagToSet(soup_config.files) : CopiesIn(f, soup_config.files) = 1
            /\ (Elems(x86_64_flags) \subseteq flags) <=> x86
            /\ (Elems(x86_64_flags) \cap flags # {}) <=> x86
            /\ (Elems(aarch64_flags) \subseteq flags) <=> (arm /\ ~x86)
            /\ \A f \in Elems(x86_64_flags) \cup Elems(aarch64_flags) :
                 Count(soup_config.flags_supported, f) <= 1
            /\ ~(x86 \/ arm) =>
                 /\ soup_config.definitions = config.definitions
                 /\ soup_config.flags_supported = config.flags_supported

\* C5 witness: a target containing both substrings went through the dispatch
\* and got the Intrin file
C5_Witness ==
    /\ AfterDispatch
    /\ contains(self.target.v, "x86_64") /\ contains(self.target.v, "aarch64")
    /\ FilesIn(soup_config, intrin_dir) # {}

BuildOutputs(n) == {[lib |-> "soup", build |-> n], [lib |-> "pluto", build |-> n]}

\* C6: from the cleanup until the first compile the output directory does not
\* exist, during the build it holds files of this build() call only, and when
\* build() has returned it holds exactly the outputs of this call.
C6_CleanOutputDir ==
    /\ pc \in {"configure", "dispatch", "compile_soup"} => ~fs[self.out_dir.v].exists
    /\ pc \in {"pluto_files", "compile_pluto", "return"} =>
           fs[self.out_dir.v].files \subseteq BuildOutputs(nbuilds)
    /\ pc = "done" =>
           fs[self.out_dir.v] = [exists |-> TRUE, files |-> BuildOutputs(nbuilds)]

\* C6 witness: a second build() has returned, and the first one ran in the
\* same output directory (no other directory holds an output of the first)
C6_Witness ==
    /\ pc = "done" /\ nbuilds = 2
    /\ \A p \in Paths \ {self.out_dir.v} : \A f \in fs[p].files : f.build # 1

BaseFlags == {"-fvisibility=hidden", "-fno-rtti", "-Wno-multichar"}

HasBaseSettings(c) ==
    /\ c.std = Some("c++17")
    /\ BaseFlags \subseteq Elems(c.flags_supported)
    /\ self.max_stack_size.some <=>
         (\E d \in Elems(c.definitions) : d.name = "LUAI_MAXSTACK")
    /\ self.max_stack_size.some =>
         [name |-> "LUAI_MAXSTACK", val |-> Some(ToString(self.max_stack_size.v))]
             \in Elems(c.definitions)
    /\ (self.use_longjmp = Some(TRUE)) <=>
         ([name |-> "LUA_USE_LONGJMP", val |-> Some("1")] \in Elems(c.definitions))
    /\ debug <=> ([name |-> "LUA_USE_APICHECK", val |-> None] \in Elems(c.definitions))
    /\ ~debug <=> ([name |-> "NDEBUG", val |-> None] \in Elems(c.definitions))

\* C7: the configuration the main library is compiled with holds none of what
\* was added to the support library's configuration (its files, the Intrin
\* files, SOUP_USE_INTRIN, the CPU-feature flags), and both configurations hold
\* every setting of the shared base.
C7_MainUnaugmented ==
    pc \in {"compile_pluto", "return"} =>
        /\ FilesIn(config, soup_dir) = {} /\ FilesIn(config, intrin_dir) = {}
        /\ BagToSet(config.files) \cap BagToSet(soup_config.files) = {}
        /\ IntrinMacro \notin Elems(config.definitions)
        /\ Elems(config.flags_supported)
             \cap (Elems(x86_64_flags) \cup Elems(aarch64_flags)) = {}
        /\ HasBaseSettings(config) /\ HasBaseSettings(soup_config)

\* C7 witness: both libraries configured for an x86_64 target with a stack
\* size set; the support library's configuration carries the augmentation
C7_Witness ==
    /\ pc = "return" /\ contains(self.target.v, "x86_64")
    /\ self.max_stack_size.some
    /\ IntrinMacro \in Elems(soup_config.definitions)
    /\ FilesIn(soup_config, soup_dir) # {} /\ FilesIn(soup_config, intrin_dir) # {}
    /\ FilesIn(config, pluto_source_dir) # {}

LinkSearch(dir) == "cargo:rustc-link-search=native=" \o dir
LinkStatic(lib) == "cargo:rustc-link-lib=static=" \o lib
LinkLib(lib) == "cargo:rustc-link-lib=" \o lib

\* C8: a call of print_cargo_metadata adds to the output, in this order, one
\* search-path directive naming lib_dir (as Path::display renders it), one
\* static-link directive per entry of libs in the stored order, and one more
\* link directive naming cpp_stdlib exactly when it is present; it adds nothing
\* else and leaves the Artifacts value as it was.
C8_Metadata ==
    [][stdout' # stdout =>
         /\ art.some /\ art' = art
         /\ LET a == art.v
                n == Len(stdout)
                added == SubSeq(stdout', n + 1, Len(stdout'))
            IN  /\ SubSeq(stdout', 1, n) = stdout
                /\ Len(added) = 1 + Len(a.libs) + (IF a.cpp_stdlib.some THEN 1 ELSE 0)
                /\ added[1] = LinkSearch(display(a.lib_dir))
                /\ \A i \in 1..Len(a.libs) : added[1 + i] = LinkStatic(a.libs[i])
                /\ a.cpp_stdlib.some => added[Len(added)] = LinkLib(a.cpp_stdlib.v)]_vars

\* C8 witness: the metadata of an msvc build, which has no standard library to
\* link, has been printed
C8_Witness ==
    /\ art.some /\ ~art.v.cpp_stdlib.some
    /\ stdout = <<LinkSearch(art.v.lib_dir), LinkStatic("pluto"), LinkStatic("soup")>>

\* what new() found in the environment of construction, overridden by the
\* setter calls made since
Settled ==
    [out_dir |-> IF setters.out_dir.some THEN setters.out_dir ELSE new_build(snap).out_dir,
     target |-> IF setters.target.some THEN setters.target ELSE new_build(snap).target,
     host |-> IF setters.host.some THEN setters.host ELSE new_build(snap).host]

\* the Artifacts a build settled that way returns when the override variables
\* are read from environment e
ArtifactsUnder(e) ==
    [lib_dir |-> Settled.out_dir.v,
     libs |-> <<"pluto", "soup">>,
     cpp_stdlib |-> get_cpp_link_stdlib_in(e, Settled.target.v, Settled.host.v)]

\* C9 as stated: whatever changed in the environment between new() and build(),
\* the Artifacts returned are those the environment of construction gives.
C9_SnapshotOnly ==
    pc = "done" => art = Some(ArtifactsUnder(snap))

\* C9 amended: OUT_DIR, TARGET and HOST are read at construction only, so
\* lib_dir, libs and the triples the resolver is given come from the snapshot
\* and the setter calls; the CXXSTDLIB override variables are read while
\* build() runs, so cpp_stdlib is resolved from their values at that time, and
\* equals the snapshot's answer when none of the four consulted has changed.
C9_SnapshotExceptOverrides ==
    pc = "done" =>
        /\ art = Some(ArtifactsUnder(env))
        /\ art.v.lib_dir = ArtifactsUnder(snap).lib_dir
        /\ art.v.libs = ArtifactsUnder(snap).libs
        /\ (\A i \in 1..4 :
              LET k == OverrideOrder(Settled.target.v, Settled.host.v)[i]
              IN  env_var_os(env, k) = env_var_os(snap, k))
             => art = Some(ArtifactsUnder(snap))

\* C9 witness: OUT_DIR, TARGET or HOST changed after new(), the build ran in
\* the directory of the snapshot
C9_Witness ==
    /\ pc = "done" /\ ~setters.out_dir.some
    /\ env_var_os(env, "OUT_DIR") # env_var_os(snap, "OUT_DIR")
    /\ art.v.lib_dir = join(snap["OUT_DIR"], "pluto-build")

StepOrder ==
    <<"expect", "cleanup", "enum_soup", "dispatch", "compile_soup", "enum_pluto",
      "compile_pluto", "return">>

\* C10: the steps of a build() call run in one order (cleanup, the support
\* library's enumeration and compile, then the main library's, then the
\* return); a step that failed is the last one and leaves the call aborted
\* with nothing returned; an Artifacts value exists only when every step,
\* both compiles included, has succeeded and both libraries are on disk.
C10_OrderedAllOrNothing ==
    /\ Len(trace) <= Len(StepOrder)
    /\ \A i \in 1..Len(trace) : trace[i].step = StepOrder[i]
    /\ \A i \in 1..(Len(trace) - 1) : trace[i].ok
    /\ pc = "aborted" <=> (trace # <<>> /\ ~trace[Len(trace)].ok)
    /\ pc = "aborted" => art = None
    /\ art.some =>
         /\ Len(trace) = Len(StepOrder) /\ \A i \in 1..Len(trace) : trace[i].ok
         /\ pc = "done" => BuildOutputs(nbuilds) \subseteq fs[art.v.lib_dir].files

\* C10 witness: the support library's compile failed and the call ended there
C10_Witness ==
    /\ pc = "aborted" /\ Len(trace) = 5
    /\ trace[5] = Step("compile_soup", FALSE)
    /\ art = None
    /\ \A f \in fs[self.out_dir.v].files : f.lib # "pluto"

====
